---------------------------- MODULE Spec2Model ----------------------------
(***************************************************************************)
(* AusgabeAnalyst: the statement extractor (src/src/pdf_parser.py), the    *)
(* keyword classifier (src/src/categorizer.py, src/config/categories.py)   *)
(* and the CSV ledger (src/src/data_manager.py), as state machines.        *)
(*                                                                         *)
(* Python strings are TLA+ strings; a character is a string of length 1.   *)
(* A Python float that comes from an amount token is the decimal           *)
(* [neg, mant, scale] = (-1)^neg * mant / 10^scale, kept normalised (no    *)
(* trailing zero in the fraction), so that two amounts are equal floats    *)
(* exactly when they are equal records.                                    *)
(***************************************************************************)
EXTENDS Integers, Sequences, FiniteSets, TLC

VARIABLES
    csv,        \* data/expenses_history.csv: the rows under the header line
    ncalls,     \* number of DataManager calls made so far
    last,       \* the last DataManager call: its arguments and what it returned
    heap,       \* the keyword lists (Python list objects), by object identity
    dicts,      \* category_keywords of each TransactionCategorizer: name -> list object
    nadds,      \* number of add_keyword calls made so far
    call,       \* the last classifier call: its arguments and what it returned
    lines,      \* _extract_transactions: the lines of the text read so far
    year,       \* _extract_transactions: the year argument
    objs,       \* the transaction dicts built so far (Python objects), by identity
    transactions,         \* _extract_transactions: the list, as references into objs
    current_transaction,  \* _extract_transactions: a reference into objs, 0 for None
    status,     \* "idle", "scanning", then "returned" or "raised"
    result,     \* what _extract_transactions returned
    error,      \* the exception it raised
    nuploads,   \* number of uploaded files processed by the application
    upload,     \* the last processed upload and its outcome
    pending,    \* add_transactions calls between their read and their write, by caller
    returned    \* the last direct call of a parser helper: its arguments and outcome

storeVars == <<csv, ncalls, last>>
catVars == <<heap, dicts, nadds, call>>
extractVars == <<lines, year, objs, transactions, current_transaction, status, result, error>>
appVars == <<nuploads, upload>>
writerVars == <<pending>>
helperVars == <<returned>>
vars == <<csv, ncalls, last, heap, dicts, nadds, call, lines, year, objs, transactions,
          current_transaction, status, result, error, nuploads, upload, pending, returned>>

-----------------------------------------------------------------------------
(* Bounds of the model                                                     *)

MaxBatch == 2       \* transactions in one add_transactions call
MaxCalls == 3       \* DataManager calls in one run
MaxAdds == 2        \* add_keyword calls in one run
MaxLines == 3       \* lines of one text given to _extract_transactions
MaxUploads == 2     \* files uploaded in one run

-----------------------------------------------------------------------------
(* Strings                                                                 *)

Ch(s, i) == SubSeq(s, i, i)

DigitChars == {"0", "1", "2", "3", "4", "5", "6", "7", "8", "9"}

IsDigit(c) == c \in DigitChars

DigitVal(c) ==
    CASE c = "0" -> 0 [] c = "1" -> 1 [] c = "2" -> 2 [] c = "3" -> 3
      [] c = "4" -> 4 [] c = "5" -> 5 [] c = "6" -> 6 [] c = "7" -> 7
      [] c = "8" -> 8 [] c = "9" -> 9

DigitChar(d) == Ch("0123456789", d + 1)

\* str(n) for a natural number n
RECURSIVE NatStr(_)
NatStr(n) == IF n < 10 THEN DigitChar(n) ELSE NatStr(n \div 10) \o DigitChar(n % 10)

RECURSIVE Pow10(_)
Pow10(k) == IF k = 0 THEN 1 ELSE 10 * Pow10(k - 1)

\* s.zfill(w)
RECURSIVE ZFill(_, _)
ZFill(s, w) == IF Len(s) >= w THEN s ELSE ZFill("0" \o s, w)

\* str.lower(), for the letters that occur in the model's strings
UpperLetters == "ABCDEFGHIJKLMNOPQRSTUVWXYZÄÖÜ"
LowerLetters == "abcdefghijklmnopqrstuvwxyzäöü"

LowerMap ==
    [c \in {Ch(UpperLetters, i) : i \in 1..Len(UpperLetters)} |->
        Ch(LowerLetters, CHOOSE i \in 1..Len(UpperLetters) : Ch(UpperLetters, i) = c)]

LowerChar(c) == IF c \in DOMAIN LowerMap THEN LowerMap[c] ELSE c

RECURSIVE Lower(_)
Lower(s) == IF s = "" THEN "" ELSE LowerChar(Ch(s, 1)) \o Lower(SubSeq(s, 2, Len(s)))

\* sub in s
Contains(sub, s) ==
    \E i \in 0..(Len(s) - Len(sub)) : SubSeq(s, i + 1, i + Len(sub)) = sub

AllDigits(s) == \A i \in 1..Len(s) : IsDigit(Ch(s, i))

-----------------------------------------------------------------------------
(* Amounts                                                                 *)

\* The float's value with the fraction's trailing zeros dropped.
RECURSIVE Normalise(_)
Normalise(a) ==
    IF a.scale > 0 /\ a.mant % 10 = 0
    THEN Normalise([a EXCEPT !.mant = a.mant \div 10, !.scale = a.scale - 1])
    ELSE a

\* str(float), as the f-string of _generate_transaction_id formats the amount:
\* "-12.34", "1234.56", "210.0", "-0.0" (the amounts of the model stay inside
\* the range that Python prints without an exponent).
FloatRepr(a) ==
    LET p == Pow10(a.scale)
    IN  (IF a.neg THEN "-" ELSE "")
        \o NatStr(a.mant \div p) \o "."
        \o (IF a.scale = 0 THEN "0" ELSE ZFill(NatStr(a.mant % p), a.scale))

-----------------------------------------------------------------------------
(* DataManager (src/src/data_manager.py)                                   *)

\* hashlib.md5(s.encode()).hexdigest()[:16].  The digests of the strings the
\* model hashes are the real ones; a string outside the table keeps a symbolic
\* digest, which is no number and differs from every other digest.
Md5Hex16(s) ==
    CASE s = "2025-10-01_-12.34_ALDI SE + CO KG"      -> "df9c708e6dc73fbb"
      [] s = "2025-10-05_1234.56_ZenJob SE Lohn"      -> "401c98c14316b741"
      [] s = "2025-10-01_-12.34_ALDI SAGT DANKE 2886" -> "2425856239071625"
      [] s = "2025-10-01_-12.34_ALDI SAGT DANKE 29604" -> "0444821953329718"
      [] OTHER -> "md5:" \o s

\* A variant of _generate_transaction_id: the category goes into the hash too
generate_transaction_id_with_category(transaction) ==
    Md5Hex16(transaction.value_date \o "_" \o FloatRepr(transaction.amount) \o "_"
             \o transaction.description \o "_" \o transaction.category)

generate_transaction_id(transaction) ==
    LET unique_string == transaction.value_date \o "_"
                         \o FloatRepr(transaction.amount) \o "_"
                         \o transaction.description
    IN  Md5Hex16(unique_string)


\* pd.read_csv infers each column's type from its text: a transaction_id column
\* whose every cell is a decimal numeral is read as int64 (leading zeros are
\* lost), any other column as str.  The header-only file gives an empty frame.
IsNumeral(cell) == Len(cell) > 0 /\ AllDigits(cell)

RECURSIVE StripLeadingZeros(_)
StripLeadingZeros(s) ==
    IF Len(s) > 1 /\ Ch(s, 1) = "0" THEN StripLeadingZeros(SubSeq(s, 2, Len(s))) ELSE s

StrCell(cell) == [int |-> FALSE, text |-> cell]
IntCell(cell) == [int |-> TRUE, text |-> StripLeadingZeros(cell)]

read_csv(file) ==
    LET numeric == \A i \in 1..Len(file) : IsNumeral(file[i].transaction_id)
    IN  [i \in 1..Len(file) |->
            [file[i] EXCEPT !.transaction_id =
                IF numeric THEN IntCell(file[i].transaction_id)
                           ELSE StrCell(file[i].transaction_id)]]

\* DataFrame.to_csv writes a cell as its text: an int without leading zeros.
to_csv(df) ==
    [i \in 1..Len(df) |-> [df[i] EXCEPT !.transaction_id = df[i].transaction_id.text]]

\* The subsequence of s whose elements satisfy keep (a boolean mask).
RECURSIVE Masked(_, _)
Masked(s, keep) ==
    IF s = <<>> THEN <<>>
    ELSE (IF Head(keep) THEN <<Head(s)>> ELSE <<>>) \o Masked(Tail(s), Tail(keep))

\* add_transactions on the file `file`: the file afterwards and what the call
\* returns.  pd.DataFrame([]) has no columns, so new_df['transaction_id'] raises
\* KeyError for an empty list before anything is written.  upload_date, the
\* wall-clock time of the call, is left out of the rows.
add_transactions(file, batch) ==
    LET existing_df == read_csv(file)
        new_df == [i \in 1..Len(batch) |->
                      [transaction_id |-> StrCell(generate_transaction_id(batch[i]))]
                      @@ batch[i]]
        existing_ids == {existing_df[i].transaction_id : i \in 1..Len(existing_df)}
        is_duplicate == [i \in 1..Len(new_df) |-> new_df[i].transaction_id \in existing_ids]
        duplicates_count == Cardinality({i \in 1..Len(new_df) : is_duplicate[i]})
        new_transactions == Masked(new_df, [i \in 1..Len(new_df) |-> ~is_duplicate[i]])
    IN  IF batch = <<>>
        THEN [file |-> file, raised |-> "KeyError",
              added |-> 0, skipped |-> 0, total |-> 0]
        ELSE [file |-> IF new_transactions # <<>>
                       THEN to_csv(existing_df \o new_transactions)
                       ELSE file,
              raised |-> "",
              added |-> Len(new_transactions),
              skipped |-> duplicates_count,
              total |-> Len(batch)]

\* clear_all_data removes the file and writes the header-only file again.
clear_all_data(file) == <<>>

-----------------------------------------------------------------------------
(* Callers of the DataManager: batches of categorized transactions         *)

Amt(neg, mant, scale) == Normalise([neg |-> neg, mant |-> mant, scale |-> scale])

Txn(vd, bd, desc, amount, cat) ==
    [value_date |-> vd, booking_date |-> bd,
     description |-> desc, amount |-> amount,
     type |-> IF amount.neg THEN "Debit" ELSE "Credit",
     category |-> cat, raw_description |-> desc]

StoreTxns ==
    { Txn("2025-10-01", "2025-10-02", "ALDI SE + CO KG", Amt(TRUE, 1234, 2), "Groceries"),
      Txn("2025-10-05", "2025-10-05", "ZenJob SE Lohn", Amt(FALSE, 123456, 2), "Income"),
      Txn("2025-10-01", "2025-10-01", "ALDI SAGT DANKE 2886", Amt(TRUE, 1234, 2), "Groceries") }

RECURSIVE SeqsUpTo(_, _)
SeqsUpTo(S, n) ==
    IF n = 0 THEN {<<>>}
    ELSE LET shorter == SeqsUpTo(S, n - 1)
         IN  shorter \cup {Append(s, x) : s \in {t \in shorter : Len(t) = n - 1}, x \in S}

Batches == SeqsUpTo(StoreTxns, MaxBatch)

NoCall == [op |-> "none", batch |-> <<>>, raised |-> "", added |-> 0, skipped |-> 0,
           total |-> 0]

AddTransactions(batch) ==
    LET r == add_transactions(csv, batch)
    IN  /\ ncalls < MaxCalls
        /\ csv' = r.file
        /\ ncalls' = ncalls + 1
        /\ last' = [op |-> "add", batch |-> batch, raised |-> r.raised,
                    added |-> r.added, skipped |-> r.skipped, total |-> r.total]
        /\ UNCHANGED <<catVars, extractVars, appVars, writerVars, helperVars>>

ClearAllData ==
    /\ ncalls < MaxCalls
    /\ csv' = clear_all_data(csv)
    /\ ncalls' = ncalls + 1
    /\ last' = [NoCall EXCEPT !.op = "clear"]
    /\ UNCHANGED <<catVars, extractVars, appVars, writerVars, helperVars>>

StoreNext ==
    \/ \E batch \in Batches : AddTransactions(batch)
    \/ ClearAllData


-----------------------------------------------------------------------------
(* Claims about the ledger                                                 *)

Ids(file) == {file[i].transaction_id : i \in 1..Len(file)}

IdCount(file, id) == Cardinality({i \in 1..Len(file) : file[i].transaction_id = id})

\* C1: when add_transactions is called twice in succession with the same
\* document, the second call leaves the ledger at the size the first call left
\* it, adds 0 entries and reports every entry of the document as skipped.
C1_IdempotentIngestion ==
    [][(last.op = "add" /\ last'.op = "add" /\ ncalls' = ncalls + 1
            /\ last'.batch = last.batch)
        => (/\ Len(csv') = Len(csv)
            /\ last'.added = 0
            /\ last'.skipped = Len(last'.batch))]_storeVars

\* C2: after any sequence of add_transactions and clear_all_data calls from an
\* empty store, no two ledger entries have the same transaction_id.
C2_NoTwoEntriesShareAnId ==
    \A i, j \in 1..Len(csv) :
        i # j => csv[i].transaction_id # csv[j].transaction_id

\* C3: from every ledger the calls can reach, and for any two documents A and B,
\* ingesting A then B leaves the same multiset of transaction_ids as ingesting
\* B then A.
C3_OrderIndependentIngestion ==
    \A A, B \in Batches :
        LET ab == add_transactions(add_transactions(csv, A).file, B).file
            ba == add_transactions(add_transactions(csv, B).file, A).file
        IN  \A id \in Ids(ab) \cup Ids(ba) : IdCount(ab, id) = IdCount(ba, id)

-----------------------------------------------------------------------------
(* Category table (src/config/categories.py)                               *)

\* CATEGORY_KEYWORDS, in insertion order.  The module-level dict holds one list
\* object per category: entry i of the table is list object i of the heap.
CATEGORY_KEYWORDS ==
    << [category |-> "Groceries", keywords |->
          <<"aldi", "lidl", "edeka", "rewe", "kaufland", "netto", "penny",
            "herkules", "mix markt", "city markt", "ariana mini market",
            "schwaelmer brotladen", "schaefers backstuben">>],
       [category |-> "Restaurants & Dining", keywords |->
          <<"restaurant", "pizza", "burger", "murg", "phung", "chicken house",
            "gastro", "zam zam", "halal food", "somat doner", "lezzeti mangal",
            "central grill", "west imbiss", "espresso house", "malamania">>],
       [category |-> "Income", keywords |->
          <<"lohn", "gehalt", "rente", "zenjob", "gutschrift", "salary">>],
       [category |-> "Personal Care", keywords |->
          <<"dm drogerie", "dm drogeriemarkt", "rossmann", "müller", "apotheke",
            "pharmacy">>],
       [category |-> "Telecommunications", keywords |->
          <<"drillisch", "sim24", "telekom", "vodafone", "o2">>],
       [category |-> "Clothing", keywords |->
          <<"kik", "h&m", "zara", "c&a", "primark", "takko holding", "woolworth">>],
       [category |-> "Transportation", keywords |->
          <<"tankstelle", "shell", "aral", "esso", "db ", "bahn", "rmv", "flix">>],
       [category |-> "Cash Withdrawal", keywords |->
          <<"auszahlung", "geldautomat", "withdrawal", "atm">>],
       [category |-> "Transfers", keywords |->
          <<"überweisung", "transfer", "sepa", "wise">>],
       [category |-> "Shopping", keywords |->
          <<"amazon", "ebay", "online", "shop">>],
       [category |-> "Other", keywords |-> <<>>] >>

DEFAULT_CATEGORY == "Other"

-----------------------------------------------------------------------------
(* Inputs of the classifier in the model                                   *)

Instances == {1, 2}

CustomKeywords ==
    { <<>>,
      <<[category |-> "Shopping", keywords |-> <<"zoo">>]>>,
      <<[category |-> "Shopping", keywords |-> <<"Amazon">>]>>,
      <<[category |-> "Pets", keywords |-> <<"zoo">>]>> }

AddCategories == {"Shopping", "Groceries", "Pets"}

AddKeywords == {"amazon", "zoo"}

Descriptions ==
    { "Amazon Prime", "UNKNOWN MERCHANT XYZ", "ALDI Transfer", "Rossmann Gehalt",
      "ZOO Transfer", "Zoo Frankfurt", "Geldautomat Shop" }

Range(seq) == {seq[i] : i \in 1..Len(seq)}

KnownKeywords ==
    UNION {Range(CATEGORY_KEYWORDS[i].keywords) : i \in 1..Len(CATEGORY_KEYWORDS)}
    \cup AddKeywords
    \cup UNION {UNION {Range(c[i].keywords) : i \in 1..Len(c)} : c \in CustomKeywords}

KnownDescriptions == {Lower(description) : description \in Descriptions}

-----------------------------------------------------------------------------
(* TransactionCategorizer (src/src/categorizer.py)                         *)

\* A dict is the sequence of its items in insertion order; an item's value is a
\* reference to a list object of the heap.
HasKey(d, category) == \E i \in 1..Len(d) : d[i].category = category

RefOf(d, category) == d[CHOOSE i \in 1..Len(d) : d[i].category = category].ref

\* CATEGORY_KEYWORDS.copy(): a new dict over the same list objects
ShallowCopy == [i \in 1..Len(CATEGORY_KEYWORDS) |->
                   [category |-> CATEGORY_KEYWORDS[i].category, ref |-> i]]

RECURSIVE Extend(_, _)
Extend(list, keywords) ==
    IF keywords = <<>> THEN list ELSE Extend(Append(list, Head(keywords)), Tail(keywords))

\* __init__: the instance's dict and the heap after merging custom_keywords,
\* a sequence of (category, keywords) items (<<>> for None).
RECURSIVE MergeCustom(_, _, _)
MergeCustom(d, hp, custom_keywords) ==
    IF custom_keywords = <<>> THEN [dict |-> d, heap |-> hp]
    ELSE LET category == Head(custom_keywords).category
             keywords == Head(custom_keywords).keywords
         IN  IF HasKey(d, category)
             THEN MergeCustom(d,
                      [hp EXCEPT ![RefOf(d, category)] = Extend(@, keywords)],
                      Tail(custom_keywords))
             ELSE MergeCustom(Append(d, [category |-> category, ref |-> Len(hp) + 1]),
                      Append(hp, keywords),
                      Tail(custom_keywords))

priority_order ==
    <<"Groceries", "Restaurants & Dining", "Personal Care",
      "Telecommunications", "Clothing", "Transportation", "Income">>

InPriorityOrder(category) == \E i \in 1..Len(priority_order) : priority_order[i] = category

\* keyword.lower() in description_lower
KeywordIn(keyword, description_lower) == Contains(Lower(keyword), description_lower)

\* KeywordIn, evaluated once for the keywords and descriptions of the model
KeywordInTable ==
    [keyword \in KnownKeywords |->
        [description_lower \in KnownDescriptions |-> KeywordIn(keyword, description_lower)]]

\* for keyword in keywords: if keyword.lower() in description_lower
AnyKeywordIn(keywords, description_lower) ==
    \E i \in 1..Len(keywords) :
        IF keywords[i] \in KnownKeywords /\ description_lower \in KnownDescriptions
        THEN KeywordInTable[keywords[i]][description_lower]
        ELSE KeywordIn(keywords[i], description_lower)

\* The second loop of categorize, from item j of the dict on.
RECURSIVE ScanRemaining(_, _, _, _)
ScanRemaining(d, hp, description_lower, j) ==
    IF j > Len(d) THEN DEFAULT_CATEGORY
    ELSE IF ~InPriorityOrder(d[j].category) /\ AnyKeywordIn(hp[d[j].ref], description_lower)
         THEN d[j].category
         ELSE ScanRemaining(d, hp, description_lower, j + 1)

\* The first loop of categorize, from entry i of priority_order on.
RECURSIVE ScanPriority(_, _, _, _)
ScanPriority(d, hp, description_lower, i) ==
    IF i > Len(priority_order) THEN ScanRemaining(d, hp, description_lower, 1)
    ELSE IF HasKey(d, priority_order[i])
            /\ AnyKeywordIn(hp[RefOf(d, priority_order[i])], description_lower)
         THEN priority_order[i]
         ELSE ScanPriority(d, hp, description_lower, i + 1)

\* A variant of categorize: the dict is scanned in insertion order, priority_order
\* is not consulted.
RECURSIVE ScanDictOrder(_, _, _, _)
ScanDictOrder(d, hp, description_lower, j) ==
    IF j > Len(d) THEN DEFAULT_CATEGORY
    ELSE IF AnyKeywordIn(hp[d[j].ref], description_lower) THEN d[j].category
         ELSE ScanDictOrder(d, hp, description_lower, j + 1)

categorize_dict_order(d, hp, description) == ScanDictOrder(d, hp, Lower(description), 1)

\* A variant of categorize: the two loops swapped, the generic categories first.
RECURSIVE ScanPriorityLast(_, _, _, _)
ScanPriorityLast(d, hp, description_lower, i) ==
    IF i > Len(priority_order) THEN DEFAULT_CATEGORY
    ELSE IF HasKey(d, priority_order[i])
            /\ AnyKeywordIn(hp[RefOf(d, priority_order[i])], description_lower)
         THEN priority_order[i]
         ELSE ScanPriorityLast(d, hp, description_lower, i + 1)

categorize_remaining_first(d, hp, description) ==
    LET generic == ScanRemaining(d, hp, Lower(description), 1)
    IN  IF generic # DEFAULT_CATEGORY THEN generic
        ELSE ScanPriorityLast(d, hp, Lower(description), 1)

categorize(d, hp, description) == ScanPriority(d, hp, Lower(description), 1)

get_categories(d) == [i \in 1..Len(d) |-> d[i].category]

\* A variant of add_keyword: a category that is not in the dict is not created.
add_keyword_existing_only(d, hp, category, keyword) ==
    IF ~HasKey(d, category) THEN [dict |-> d, heap |-> hp]
    ELSE [dict |-> d,
          heap |-> [hp EXCEPT ![RefOf(d, category)] =
                       IF \E i \in 1..Len(@) : Lower(@[i]) = Lower(keyword)
                       THEN @ ELSE Append(@, keyword)]]

\* add_keyword: the instance's dict and the heap afterwards
add_keyword(d, hp, category, keyword) ==
    LET d1 == IF HasKey(d, category) THEN d
              ELSE Append(d, [category |-> category, ref |-> Len(hp) + 1])
        hp1 == IF HasKey(d, category) THEN hp ELSE Append(hp, <<>>)
        list == hp1[RefOf(d1, category)]
    IN  [dict |-> d1,
         heap |-> IF \E i \in 1..Len(list) : Lower(list[i]) = Lower(keyword)
                  THEN hp1
                  ELSE [hp1 EXCEPT ![RefOf(d1, category)] = Append(@, keyword)]]

-----------------------------------------------------------------------------
(* Callers of the classifier                                               *)

NoClassifierCall ==
    [op |-> "none", inst |-> 0, category |-> "", keyword |-> "", description |-> "",
     result |-> ""]

\* TransactionCategorizer(custom_keywords)
NewCategorizer(custom_keywords) ==
    LET r == MergeCustom(ShallowCopy, heap, custom_keywords)
    IN  /\ Len(dicts) < Cardinality(Instances)
        /\ heap' = r.heap
        /\ dicts' = Append(dicts, r.dict)
        /\ call' = [NoClassifierCall EXCEPT !.op = "init", !.inst = Len(dicts) + 1]
        /\ UNCHANGED <<nadds, storeVars, extractVars, appVars, writerVars, helperVars>>

AddKeyword(inst, category, keyword) ==
    LET r == add_keyword(dicts[inst], heap, category, keyword)
    IN  /\ inst \in 1..Len(dicts)
        /\ nadds < MaxAdds
        /\ heap' = r.heap
        /\ dicts' = [dicts EXCEPT ![inst] = r.dict]
        /\ nadds' = nadds + 1
        /\ call' = [NoClassifierCall EXCEPT !.op = "add_keyword", !.inst = inst,
                       !.category = category, !.keyword = keyword]
        /\ UNCHANGED <<storeVars, extractVars, appVars, writerVars, helperVars>>

Categorize(inst, description) ==
    /\ inst \in 1..Len(dicts)
    /\ call' = [NoClassifierCall EXCEPT !.op = "categorize", !.inst = inst,
                   !.description = description,
                   !.result = categorize(dicts[inst], heap, description)]
    /\ UNCHANGED <<heap, dicts, nadds, storeVars, extractVars, appVars, writerVars, helperVars>>

CatNext ==
    \/ \E custom_keywords \in CustomKeywords : NewCategorizer(custom_keywords)
    \/ \E inst \in Instances, category \in AddCategories, keyword \in AddKeywords :
          AddKeyword(inst, category, keyword)
    \/ \E inst \in Instances, description \in Descriptions : Categorize(inst, description)

-----------------------------------------------------------------------------
(* Claims about the classifier                                             *)

\* "description contains keyword case-insensitively"
Matches(keyword, description) == AnyKeywordIn(<<keyword>>, Lower(description))

\* Category c of registry d holds a keyword that description contains.
CategoryMatches(d, hp, c, description) ==
    /\ HasKey(d, c)
    /\ \E i \in 1..Len(hp[RefOf(d, c)]) : Matches(hp[RefOf(d, c)][i], description)

PriorityTier ==
    <<"Groceries", "Restaurants & Dining", "Personal Care", "Telecommunications",
      "Clothing", "Transportation", "Income">>

FallbackTier(d) == SelectSeq(get_categories(d), LAMBDA c : c \notin Range(PriorityTier))

\* The decision list: the priority tier, then the rest in insertion order.
ScanOrder(d) == PriorityTier \o FallbackTier(d)

FirstHit(d, hp, description) ==
    LET order == ScanOrder(d)
        hits == {i \in 1..Len(order) : CategoryMatches(d, hp, order[i], description)}
    IN  IF hits = {} THEN "Other"
        ELSE order[CHOOSE i \in hits : \A j \in hits : i <= j]

\* C6: in every registry that add_keyword calls can reach, a description that
\* contains a keyword of a priority-tier category and a keyword of a
\* fallback-tier category is classified into a priority-tier category.
C6_PriorityTierWins ==
    call.op = "categorize" =>
        LET d == dicts[call.inst]
        IN  ((\E c \in Range(PriorityTier) : CategoryMatches(d, heap, c, call.description))
             /\ (\E c \in Range(FallbackTier(d)) : CategoryMatches(d, heap, c, call.description)))
            => call.result \in Range(PriorityTier)

C6_Witness ==
    /\ call.op = "categorize"
    /\ nadds > 0
    /\ call.description = "ZOO Transfer"
    /\ CategoryMatches(dicts[call.inst], heap, "Groceries", call.description)
    /\ CategoryMatches(dicts[call.inst], heap, "Transfers", call.description)
    /\ call.result = "Groceries"

\* C7: categorize returns the first category of the decision list (priority
\* tier in its declared order, then the remaining registry categories in
\* insertion order) that holds a keyword contained in the description, and
\* "Other" when no category does.
C7_FirstHitDecisionList ==
    call.op = "categorize" =>
        call.result = FirstHit(dicts[call.inst], heap, call.description)

C7_Witness ==
    /\ call.op = "categorize"
    /\ call.description = "Rossmann Gehalt"
    /\ CategoryMatches(dicts[call.inst], heap, "Income", call.description)
    /\ call.result = "Personal Care"

\* C8: after add_keyword(c, k), c is listed by get_categories, and every
\* description that contains k and no keyword of a category scanned before c
\* is classified as c.
C8_AddedKeywordClassifies ==
    call.op = "add_keyword" =>
        LET d == dicts[call.inst]
            order == ScanOrder(d)
        IN  /\ call.category \in Range(get_categories(d))
            /\ \A description \in Descriptions :
                  (/\ Matches(call.keyword, description)
                   /\ \A i \in 1..Len(order) :
                         CategoryMatches(d, heap, order[i], description)
                         => \E j \in 1..i : order[j] = call.category)
                  => categorize(d, heap, description) = call.category

C8_Witness ==
    /\ call.op = "add_keyword"
    /\ call.category = "Pets"
    /\ call.keyword = "zoo"
    /\ "Pets" \in Range(get_categories(dicts[call.inst]))
    /\ categorize(dicts[call.inst], heap, "Zoo Frankfurt") = "Pets"
    /\ categorize(dicts[call.inst], heap, "ZOO Transfer") = "Transfers"

\* C9: a constructor call or an add_keyword call on one instance changes the
\* result of categorize on no other instance, and never changes the lists of
\* the module-level CATEGORY_KEYWORDS.
C9_InstancesIndependent ==
    [][/\ \A j \in 1..Len(dicts) :
            (call'.op \in {"init", "add_keyword"} /\ call'.inst # j)
            => \A description \in Descriptions :
                  categorize(dicts'[j], heap', description)
                      = categorize(dicts[j], heap, description)
       /\ \A i \in 1..Len(CATEGORY_KEYWORDS) : heap'[i] = heap[i]]_catVars

\* No list of the instance's dict holds two keywords that are equal ignoring case
Distinct(list) == \A i, j \in 1..Len(list) : i # j => list[i] # list[j]

NoDuplicateKeywords(d, hp) ==
    \A e \in 1..Len(d) :
        Distinct([i \in 1..Len(hp[d[e].ref]) |-> Lower(hp[d[e].ref][i])])

\* The category of the instance's dict holds the keyword, ignoring case
HoldsKeyword(d, hp, category, keyword) ==
    /\ HasKey(d, category)
    /\ \E i \in 1..Len(hp[RefOf(d, category)]) :
          Lower(hp[RefOf(d, category)][i]) = Lower(keyword)

\* TransactionCategorizer() with no custom_keywords: the step builds a copy of
\* the module-level dict and writes no list
DefaultConstructed ==
    /\ Len(dicts') = Len(dicts) + 1
    /\ dicts'[Len(dicts')] = ShallowCopy
    /\ heap' = heap

\* C17: add_keyword of a keyword its category holds already, ignoring case,
\* changes no keyword list and no dict; a categorizer constructed with no
\* custom keywords holds no two keywords of one category that are equal ignoring
\* case, and no add_keyword call on a categorizer without such a pair makes one.
C17_DuplicateKeywordIsNoOp ==
    [][/\ \A inst \in 1..Len(dicts) :
            (/\ nadds' = nadds + 1
             /\ call'.inst = inst
             /\ HoldsKeyword(dicts[inst], heap, call'.category, call'.keyword))
            => heap' = heap /\ dicts' = dicts
       /\ \A inst \in 1..Len(dicts) :
            (nadds' = nadds + 1 /\ call'.inst = inst /\ NoDuplicateKeywords(dicts[inst], heap))
            => NoDuplicateKeywords(dicts'[inst], heap')
       /\ DefaultConstructed => NoDuplicateKeywords(dicts'[Len(dicts')], heap')]_vars

-----------------------------------------------------------------------------
(* VolksbankPDFParser (src/src/pdf_parser.py): tokens                      *)

IsSpace(c) == c \in {" ", "\t", "\n"}

\* str.strip()
RECURSIVE LStrip(_)
LStrip(s) == IF s # "" /\ IsSpace(Ch(s, 1)) THEN LStrip(SubSeq(s, 2, Len(s))) ELSE s

RECURSIVE RStrip(_)
RStrip(s) == IF s # "" /\ IsSpace(Ch(s, Len(s))) THEN RStrip(SubSeq(s, 1, Len(s) - 1)) ELSE s

Strip(s) == LStrip(RStrip(s))

\* s[i:j] of Python for i, j >= 0, counted from 0; both are cut to len(s)
Slice(s, i, j) ==
    LET a == IF i > Len(s) THEN Len(s) ELSE i
        b == IF j > Len(s) THEN Len(s) ELSE j
    IN  IF a >= b THEN "" ELSE SubSeq(s, a + 1, b)

\* \d{2}\.\d{2}\. at offset i (from 0) of s
DateTokenAt(s, i) ==
    /\ i + 6 <= Len(s)
    /\ IsDigit(Ch(s, i + 1)) /\ IsDigit(Ch(s, i + 2)) /\ Ch(s, i + 3) = "."
    /\ IsDigit(Ch(s, i + 4)) /\ IsDigit(Ch(s, i + 5)) /\ Ch(s, i + 6) = "."

\* The offset of the first character at or after offset i that is no whitespace
RECURSIVE SkipSpaces(_, _)
SkipSpaces(s, i) == IF i < Len(s) /\ IsSpace(Ch(s, i + 1)) THEN SkipSpaces(s, i + 1) ELSE i

\* row_start_pattern.match(line): ^(\d{2}\.\d{2}\.)\s+(\d{2}\.\d{2}\.)
row_start_match(line) ==
    LET second == SkipSpaces(line, 6)
    IN  IF DateTokenAt(line, 0) /\ second > 6 /\ DateTokenAt(line, second)
        THEN [matched |-> TRUE, val_date |-> Slice(line, 0, 6),
              book_date |-> Slice(line, second, second + 6), end |-> second + 6]
        ELSE [matched |-> FALSE, val_date |-> "", book_date |-> "", end |-> 0]

IsAmountChar(c) == IsDigit(c) \/ c = "," \/ c = "."

\* The offset where the run of [\d,\.] that ends before offset j starts
RECURSIVE RunStart(_, _)
RunStart(s, j) == IF j > 0 /\ IsAmountChar(Ch(s, j)) THEN RunStart(s, j - 1) ELSE j

\* The offset after the whitespace that ends before offset j, scanning backwards
RECURSIVE SpacesStart(_, _)
SpacesStart(s, j) == IF j > 0 /\ IsSpace(Ch(s, j)) THEN SpacesStart(s, j - 1) ELSE j

\* amount_pattern.search(line): ([\d,\.]+)\s+([SH])$ .  The indicator is the
\* last character, whitespace precedes it, and the amount is the whole run of
\* [\d,\.] before that whitespace: the search, going left to right, first
\* succeeds at the start of that run.
amount_search(line) ==
    LET n == Len(line)
        sp == SpacesStart(line, n - 1)
        st == RunStart(line, sp)
    IN  IF n >= 3 /\ Ch(line, n) \in {"S", "H"} /\ sp < n - 1 /\ st < sp
        THEN [matched |-> TRUE, amt_str |-> Slice(line, st, sp),
              type_ind |-> Ch(line, n), start |-> st]
        ELSE [matched |-> FALSE, amt_str |-> "", type_ind |-> "", start |-> 0]

\* s.strip('.')
RECURSIVE StripDots(_)
StripDots(s) ==
    IF s # "" /\ Ch(s, 1) = "." THEN StripDots(SubSeq(s, 2, Len(s)))
    ELSE IF s # "" /\ Ch(s, Len(s)) = "." THEN StripDots(SubSeq(s, 1, Len(s) - 1))
    ELSE s

\* s.split(sep) for a separator of one character: the pieces between the
\* occurrences of sep, empty pieces included
Split(s, sep) ==
    LET cuts == {i \in 1..Len(s) : Ch(s, i) = sep}
        n == Cardinality(cuts)
        Cut(k) == CHOOSE i \in cuts : Cardinality({j \in cuts : j < i}) = k - 1
    IN  [k \in 1..(n + 1) |->
            SubSeq(s, IF k = 1 THEN 1 ELSE Cut(k - 1) + 1,
                      IF k = n + 1 THEN Len(s) ELSE Cut(k) - 1)]

\* s.replace(old, new) for an old of one character
RECURSIVE Replace(_, _, _)
Replace(s, old, new) ==
    IF s = "" THEN ""
    ELSE (IF Ch(s, 1) = old THEN new ELSE Ch(s, 1)) \o Replace(SubSeq(s, 2, Len(s)), old, new)

\* sep.join(parts)
RECURSIVE Join(_, _)
Join(parts, sep) ==
    IF parts = <<>> THEN ""
    ELSE IF Len(parts) = 1 THEN parts[1]
    ELSE parts[1] \o sep \o Join(Tail(parts), sep)

\* A variant of _parse_date: day and month change places
parse_date_day_first(date_str, yr) ==
    LET parts == Split(StripDots(date_str), ".")
    IN  IF Len(parts) # 2 THEN [raised |-> "ValueError", value |-> ""]
        ELSE [raised |-> "",
              value |-> yr \o "-" \o ZFill(parts[1], 2) \o "-" \o ZFill(parts[2], 2)]

\* _parse_date: day, month = date_str.strip('.').split('.') raises ValueError
\* unless the split gives exactly two parts.
parse_date(date_str, yr) ==
    LET parts == Split(StripDots(date_str), ".")
    IN  IF Len(parts) # 2 THEN [raised |-> "ValueError", value |-> ""]
        ELSE [raised |-> "",
              value |-> yr \o "-" \o ZFill(parts[2], 2) \o "-" \o ZFill(parts[1], 2)]

RECURSIVE NatOf(_)
NatOf(digits) ==
    IF digits = "" THEN 0
    ELSE 10 * NatOf(SubSeq(digits, 1, Len(digits) - 1)) + DigitVal(Ch(digits, Len(digits)))

\* float(s) for a string of digits and dots (what is left of a [\d,\.]+ token):
\* a number when s has one dot at most and one digit at least, else ValueError.
float(s) ==
    LET parts == Split(s, ".")
    IN  IF \/ Len(parts) > 2
           \/ \A i \in 1..Len(parts) : parts[i] = ""
           \/ \E i \in 1..Len(parts) : ~AllDigits(parts[i])
        THEN [raised |-> "ValueError", value |-> [neg |-> FALSE, mant |-> 0, scale |-> 0]]
        ELSE [raised |-> "",
              value |-> Normalise([neg |-> FALSE,
                                   mant |-> NatOf(Join(parts, "")),
                                   scale |-> IF Len(parts) = 2 THEN Len(parts[2]) ELSE 0])]

\* A variant of _parse_amount: the thousands separators are not removed
parse_amount_keep_dots(amount_str, type_indicator) ==
    LET amount == float(Replace(amount_str, ",", "."))
    IN  IF amount.raised # "" THEN amount
        ELSE [raised |-> "",
              value |-> IF type_indicator = "S"
                        THEN [amount.value EXCEPT !.neg = TRUE]
                        ELSE amount.value]

\* A variant of _parse_amount: the debit is not negated
parse_amount_unsigned(amount_str, type_indicator) ==
    float(Replace(Replace(amount_str, ".", ""), ",", "."))

\* _parse_amount
parse_amount(amount_str, type_indicator) ==
    LET amount == float(Replace(Replace(amount_str, ".", ""), ",", "."))
    IN  IF amount.raised # "" THEN amount
        ELSE [raised |-> "",
              value |-> IF type_indicator = "S"
                        THEN [amount.value EXCEPT !.neg = TRUE]
                        ELSE amount.value]

-----------------------------------------------------------------------------
(* VolksbankPDFParser: _extract_transactions                               *)

\* str(datetime.now().year), the default of the year argument
CurrentYear == "2026"

NoObjects == [objs |-> <<>>, transactions |-> <<>>, current_transaction |-> 0,
              raised |-> ""]

\* A variant of the loop body: a continuation line may start with a digit
scan_line_keep_digits(st, raw_line, yr) ==
    LET line == Strip(raw_line)
        row_match == row_start_match(line)
        saved == IF st.current_transaction # 0
                 THEN Append(st.transactions, st.current_transaction)
                 ELSE st.transactions
        amt_match == amount_search(line)
        desc_part == Strip(Slice(line, row_match.end, amt_match.start))
        value_date == parse_date(row_match.val_date, yr)
        booking_date == parse_date(row_match.book_date, yr)
        amount == parse_amount(amt_match.amt_str, amt_match.type_ind)
        cur == st.current_transaction
    IN  IF row_match.matched
        THEN IF amt_match.matched
             THEN IF value_date.raised # "" \/ booking_date.raised # "" \/ amount.raised # ""
                  THEN [st EXCEPT !.transactions = saved, !.raised = "ValueError"]
                  ELSE [objs |-> Append(st.objs,
                                   [value_date |-> value_date.value,
                                    booking_date |-> booking_date.value,
                                    description_lines |-> <<desc_part>>,
                                    amount |-> amount.value,
                                    type |-> IF amt_match.type_ind = "H" THEN "Credit"
                                                                            ELSE "Debit",
                                    raw_description |-> line]),
                        transactions |-> saved,
                        current_transaction |-> Len(st.objs) + 1,
                        raised |-> ""]
             ELSE [st EXCEPT !.transactions = saved]
        ELSE IF cur # 0 /\ line # ""
             THEN [st EXCEPT !.objs[cur].description_lines = Append(@, line),
                             !.objs[cur].raw_description = @ \o " " \o line]
             ELSE st

\* One iteration of the loop over the lines (pdf_parser.py lines 111-142).  A
\* list entry and current_transaction are references: a dict that is appended
\* and stays current is one object, reached from both.
scan_line(st, raw_line, yr) ==
    LET line == Strip(raw_line)
        row_match == row_start_match(line)
        saved == IF st.current_transaction # 0
                 THEN Append(st.transactions, st.current_transaction)
                 ELSE st.transactions
        amt_match == amount_search(line)
        desc_part == Strip(Slice(line, row_match.end, amt_match.start))
        value_date == parse_date(row_match.val_date, yr)
        booking_date == parse_date(row_match.book_date, yr)
        amount == parse_amount(amt_match.amt_str, amt_match.type_ind)
        cur == st.current_transaction
    IN  IF row_match.matched
        THEN IF amt_match.matched
             THEN IF value_date.raised # "" \/ booking_date.raised # "" \/ amount.raised # ""
                  THEN [st EXCEPT !.transactions = saved, !.raised = "ValueError"]
                  ELSE [objs |-> Append(st.objs,
                                   [value_date |-> value_date.value,
                                    booking_date |-> booking_date.value,
                                    description_lines |-> <<desc_part>>,
                                    amount |-> amount.value,
                                    type |-> IF amt_match.type_ind = "H" THEN "Credit"
                                                                            ELSE "Debit",
                                    raw_description |-> line]),
                        transactions |-> saved,
                        current_transaction |-> Len(st.objs) + 1,
                        raised |-> ""]
             ELSE [st EXCEPT !.transactions = saved]
        ELSE IF cur # 0 /\ line # "" /\ ~IsDigit(Ch(line, 1))
             THEN [st EXCEPT !.objs[cur].description_lines = Append(@, line),
                             !.objs[cur].raw_description = @ \o " " \o line]
             ELSE st

\* t['description'] = " ".join(t.pop('description_lines'))
Finalised(t) ==
    [value_date |-> t.value_date, booking_date |-> t.booking_date,
     amount |-> t.amount, type |-> t.type, raw_description |-> t.raw_description,
     description |-> Join(t.description_lines, " ")]

\* After the loop (lines 144-152): the last append, then the pass that joins the
\* description lines.  t.pop('description_lines') raises KeyError when the same
\* dict comes up a second time.
finalize(st) ==
    LET all == IF st.current_transaction # 0
               THEN Append(st.transactions, st.current_transaction)
               ELSE st.transactions
    IN  IF \E i, j \in 1..Len(all) : i < j /\ all[i] = all[j]
        THEN [raised |-> "KeyError", transactions |-> <<>>]
        ELSE [raised |-> "",
              transactions |-> [i \in 1..Len(all) |-> Finalised(st.objs[all[i]])]]

RECURSIVE ScanLines(_, _, _)
ScanLines(st, rest, yr) ==
    IF rest = <<>> \/ st.raised # "" THEN st
    ELSE ScanLines(scan_line(st, Head(rest), yr), Tail(rest), yr)

\* _extract_transactions(text, year); "" stands for year=None
extract_transactions(full_text, yr) ==
    LET st == ScanLines(NoObjects, Split(full_text, "\n"), IF yr = "" THEN CurrentYear ELSE yr)
    IN  IF st.raised # "" THEN [raised |-> st.raised, transactions |-> <<>>]
        ELSE finalize(st)

-----------------------------------------------------------------------------
(* The extractor, line by line                                             *)

ExtractLines ==
    { "01.10. 02.10. KARTENZAHLUNG GIROCARD 12,34 S",
      "ALDI SE + CO KG",
      "03.10. 03.10. REWE MARKT",
      "01.10. 02.10. S",
      "",
      "12345 Seite 1",
      "05.10. 05.10. ZenJob SE Lohn 1.234,56 H",
      "06.10. 06.10. BAECKER 1,2,3 S",
      "31.02. 99.99. X 1,00 S" }

Years == {"2025", ""}

ScannerState == [objs |-> objs, transactions |-> transactions,
                 current_transaction |-> current_transaction, raised |-> ""]

\* The call _extract_transactions(text, year), up to the loop (lines 104-109)
ExtractTransactions(yr) ==
    /\ status = "idle"
    /\ year' = IF yr = "" THEN CurrentYear ELSE yr
    /\ status' = "scanning"
    /\ UNCHANGED <<lines, objs, transactions, current_transaction, result, error,
                   storeVars, catVars, appVars, writerVars, helperVars>>

\* One iteration of "for line in lines"
ReadLine(raw_line) ==
    LET st == scan_line(ScannerState, raw_line, year)
    IN  /\ status = "scanning"
        /\ Len(lines) < MaxLines
        /\ lines' = Append(lines, raw_line)
        /\ objs' = st.objs
        /\ transactions' = st.transactions
        /\ current_transaction' = st.current_transaction
        /\ status' = IF st.raised # "" THEN "raised" ELSE "scanning"
        /\ error' = st.raised
        /\ UNCHANGED <<year, result, storeVars, catVars, appVars, writerVars, helperVars>>

\* The end of the text: lines 144-152
EndOfInput ==
    LET r == finalize(ScannerState)
    IN  /\ status = "scanning"
        /\ status' = IF r.raised # "" THEN "raised" ELSE "returned"
        /\ error' = r.raised
        /\ result' = r.transactions
        /\ UNCHANGED <<lines, year, objs, transactions, current_transaction,
                       storeVars, catVars, appVars, writerVars, helperVars>>

ExtractNext ==
    \/ \E yr \in Years : ExtractTransactions(yr)
    \/ \E raw_line \in ExtractLines : ReadLine(raw_line)
    \/ EndOfInput

-----------------------------------------------------------------------------
(* VolksbankPDFParser: _extract_metadata, parse_pdf, _clean_description    *)

Min(S) == CHOOSE x \in S : \A y \in S : x <= y

\* A dict with string keys is a function on its keys
EmptyDict == <<>>

Put(m, k, v) == [x \in (DOMAIN m) \cup {k} |-> IF x = k THEN v ELSE m[x]]

\* The offset after the run of digits that starts at offset i
RECURSIVE DigitRunEnd(_, _)
DigitRunEnd(s, i) == IF i < Len(s) /\ IsDigit(Ch(s, i + 1)) THEN DigitRunEnd(s, i + 1) ELSE i

\* The offset after the run of [\d,\.] that starts at offset i
RECURSIVE AmountRunEnd(_, _)
AmountRunEnd(s, i) ==
    IF i < Len(s) /\ IsAmountChar(Ch(s, i + 1)) THEN AmountRunEnd(s, i + 1) ELSE i

\* re.search(r'(\d+)/(\d{4})', text): the leftmost match
statement_search(s) ==
    LET At(i) == LET e == DigitRunEnd(s, i)
                 IN  /\ e > i
                     /\ e + 5 <= Len(s)
                     /\ Ch(s, e + 1) = "/"
                     /\ AllDigits(Slice(s, e + 1, e + 5))
        starts == {i \in 0..(Len(s) - 1) : At(i)}
    IN  IF starts = {} THEN [matched |-> FALSE, statement_number |-> "", year |-> ""]
        ELSE LET i == Min(starts)
                 e == DigitRunEnd(s, i)
             IN  [matched |-> TRUE, statement_number |-> Slice(s, i, e),
                  year |-> Slice(s, e + 1, e + 5)]

\* balance_pattern / old_balance_pattern .search(text), the patterns being
\* <literal>(\d{2}\.\d{2}\.\d{4})\s+([\d,\.]+)\s+([SH])
balance_search(s, literal) ==
    LET n == Len(literal)
        At(i) == LET sp == SkipSpaces(s, i + n + 10)
                     a == AmountRunEnd(s, sp)
                     t == SkipSpaces(s, a)
                 IN  /\ Slice(s, i, i + n) = literal
                     /\ DateTokenAt(s, i + n)
                     /\ i + n + 10 <= Len(s)
                     /\ AllDigits(Slice(s, i + n + 6, i + n + 10))
                     /\ sp > i + n + 10
                     /\ a > sp
                     /\ t > a
                     /\ t < Len(s)
                     /\ Ch(s, t + 1) \in {"S", "H"}
        starts == {i \in 0..(Len(s) - 1) : At(i)}
    IN  IF starts = {}
        THEN [matched |-> FALSE, date_str |-> "", amount_str |-> "", type_indicator |-> ""]
        ELSE LET i == Min(starts)
                 sp == SkipSpaces(s, i + n + 10)
                 a == AmountRunEnd(s, sp)
                 t == SkipSpaces(s, a)
             IN  [matched |-> TRUE, date_str |-> Slice(s, i + n, i + n + 10),
                  amount_str |-> Slice(s, sp, a), type_indicator |-> Ch(s, t + 1)]

\* The offset after \s*\d{k} from offset i, or -1 when that does not match
DigitsAfterSpaces(s, i, k) ==
    IF i < 0 THEN -1
    ELSE LET sp == SkipSpaces(s, i)
         IN  IF sp + k <= Len(s) /\ AllDigits(Slice(s, sp, sp + k)) THEN sp + k ELSE -1

\* re.search(r'IBAN:\s*(DE\d{2}\s*\d{4}\s*\d{4}\s*\d{4}\s*\d{4}\s*\d{2})', text)
iban_search(s) ==
    LET Start(i) == SkipSpaces(s, i + 5)
        End(i) == LET g == Start(i)
                  IN  IF Slice(s, i, i + 5) = "IBAN:" /\ Slice(s, g, g + 2) = "DE"
                         /\ g + 4 <= Len(s) /\ AllDigits(Slice(s, g + 2, g + 4))
                      THEN DigitsAfterSpaces(s,
                             DigitsAfterSpaces(s,
                               DigitsAfterSpaces(s,
                                 DigitsAfterSpaces(s,
                                   DigitsAfterSpaces(s, g + 4, 4), 4), 4), 4), 2)
                      ELSE -1
        starts == {i \in 0..(Len(s) - 1) : End(i) >= 0}
    IN  IF starts = {} THEN [matched |-> FALSE, group |-> ""]
        ELSE [matched |-> TRUE, group |-> Slice(s, Start(Min(starts)), End(Min(starts)))]

\* metadata['iban'] = iban_match.group(1).replace(' ', '')
IbanItems(iban_match) ==
    IF iban_match.matched THEN [iban |-> Replace(iban_match.group, " ", "")] ELSE EmptyDict

StatementItems(statement_match) ==
    IF statement_match.matched
    THEN [statement_number |-> statement_match.statement_number,
          year |-> statement_match.year]
    ELSE EmptyDict

OldBalanceItems(balance_match, balance) ==
    IF balance_match.matched
    THEN [old_balance_date |-> balance_match.date_str, old_balance |-> balance.value]
    ELSE EmptyDict

NewBalanceItems(balance_match, balance) ==
    IF balance_match.matched
    THEN [new_balance_date |-> balance_match.date_str, new_balance |-> balance.value]
    ELSE EmptyDict

BalanceOf(balance_match) ==
    parse_amount(balance_match.amount_str, balance_match.type_indicator)

\* The dict of the four matches, or the exception of _parse_amount
MetadataOf(iban_match, statement_match, old_balance_match, old_balance, new_balance_match, new_balance) ==
    IF \/ old_balance_match.matched /\ old_balance.raised # ""
       \/ new_balance_match.matched /\ new_balance.raised # ""
    THEN [raised |-> "ValueError", metadata |-> EmptyDict]
    ELSE [raised |-> "",
          metadata |-> IbanItems(iban_match) @@ StatementItems(statement_match)
                       @@ OldBalanceItems(old_balance_match, old_balance)
                       @@ NewBalanceItems(new_balance_match, new_balance)]

MetadataOfMatches(iban_match, statement_match, old_balance_match, new_balance_match) ==
    MetadataOf(iban_match, statement_match,
               old_balance_match, BalanceOf(old_balance_match),
               new_balance_match, BalanceOf(new_balance_match))

\* _extract_metadata(text)
extract_metadata(full_text) ==
    MetadataOfMatches(iban_search(full_text), statement_search(full_text),
                      balance_search(full_text, "alter Kontostand vom "),
                      balance_search(full_text, "neuer Kontostand vom "))

\* for page in pdf.pages: full_text += page.extract_text() + "\n"
RECURSIVE FullText(_)
FullText(pages) == IF pages = <<>> THEN "" ELSE Head(pages) \o "\n" \o FullText(Tail(pages))

\* metadata.get('year'); "" stands for None
GetYear(metadata) == IF "year" \in DOMAIN metadata THEN metadata["year"] ELSE ""

Failed(cause) ==
    [raised |-> "Exception", message |-> "Error parsing PDF: " \o cause,
     transactions |-> <<>>, metadata |-> EmptyDict]

\* The records read up to a failure, none of them dropped
PartialOf(st) ==
    [i \in 1..Len(st.transactions) |-> Finalised(st.objs[st.transactions[i]])]

PartialResult(md, st) ==
    [raised |-> "", message |-> "", transactions |-> PartialOf(st),
     metadata |-> md.metadata]

\* A parser that returns what it has read up to a failure instead of raising
parse_text_partial(readable, full_text, md) ==
    PartialResult(md,
        ScanLines(NoObjects, Split(full_text, "\n"),
                  IF GetYear(md.metadata) = "" THEN CurrentYear ELSE GetYear(md.metadata)))

\* The return or the raise of parse_pdf, from the outcomes of its two calls
ParseResult(readable, md, tx) ==
    IF ~readable THEN Failed("PDFSyntaxError")
    ELSE IF md.raised # "" THEN Failed(md.raised)
    ELSE IF tx.raised # "" THEN Failed(tx.raised)
    ELSE [raised |-> "", message |-> "",
          transactions |-> tx.transactions, metadata |-> md.metadata]

\* transactions = self._extract_transactions(full_text, metadata.get('year'))
parse_text(readable, full_text, md) ==
    ParseResult(readable, md, extract_transactions(full_text, GetYear(md.metadata)))

\* metadata = self._extract_metadata(full_text)
parse_full_text(readable, full_text) ==
    parse_text(readable, full_text, extract_metadata(full_text))

\* parse_pdf(pdf_path).  A document is what pdfplumber makes of the file: it
\* opens or not, and its pages have text.
parse_pdf(doc) == parse_full_text(doc.readable, FullText(doc.pages))

\* str.upper(), for the letters that occur in the model's strings
UpperChar(c) ==
    IF \E i \in 1..Len(LowerLetters) : Ch(LowerLetters, i) = c
    THEN Ch(UpperLetters, CHOOSE i \in 1..Len(LowerLetters) : Ch(LowerLetters, i) = c)
    ELSE c

RECURSIVE Upper(_)
Upper(s) == IF s = "" THEN "" ELSE UpperChar(Ch(s, 1)) \o Upper(SubSeq(s, 2, Len(s)))

ignore_headers == <<"KARTENZAHLUNG GIROCARD", "BASISLASTSCHRIFT", "ÜBERWEISUNG", "GUTSCHRIFT">>

HasIgnoredHeader(s) ==
    \E i \in 1..Len(ignore_headers) : Contains(ignore_headers[i], Upper(s))

HasDigit(s) == \E i \in 1..Len(s) : IsDigit(Ch(s, i))

\* [line.strip() for line in description.split('\n') if line.strip()]
RECURSIVE StrippedLines(_)
StrippedLines(parts) ==
    IF parts = <<>> THEN <<>>
    ELSE IF Strip(Head(parts)) # "" THEN <<Strip(Head(parts))>> \o StrippedLines(Tail(parts))
    ELSE StrippedLines(Tail(parts))

\* A variant of _clean_description: a generic header is kept as the description
clean_description_keep_header(description) ==
    LET ls == StrippedLines(Split(description, "\n"))
    IN  IF ls = <<>> THEN "Unknown" ELSE ls[1]

\* _clean_description(description).  No caller in parse_pdf or
\* _extract_transactions: the tests call it.
clean_description(description) ==
    LET ls == StrippedLines(Split(description, "\n"))
        vendors == {k \in 2..3 : k <= Len(ls) /\ ~HasDigit(Slice(ls[k], 0, 5))}
    IN  IF ls = <<>> THEN "Unknown"
        ELSE IF HasIgnoredHeader(ls[1]) /\ Len(ls) > 1 /\ vendors # {}
        THEN ls[Min(vendors)]
        ELSE ls[1]

-----------------------------------------------------------------------------
(* ExpenseTrackerApp (src/main.py): uploads into the ledger                *)

\* categorize_batch(transactions): transaction['category'] = categorize(...)
categorize_batch(d, hp, batch) ==
    [i \in 1..Len(batch) |->
        [category |-> categorize(d, hp, batch[i].description)] @@ batch[i]]

Pdf(pages) == [readable |-> TRUE, pages |-> pages]

NoPdf == [readable |-> FALSE, pages |-> <<>>]

Documents ==
    { Pdf(<<"Kontoauszug 10/2025\n01.10. 02.10. KARTENZAHLUNG GIROCARD 12,34 S\nALDI SE + CO KG">>),
      Pdf(<<"Kontoauszug 10/2025\n05.10. 05.10. ZenJob SE Lohn 1.234,56 H\n06.10. 06.10. BAECKER 1,2,3 S">>),
      Pdf(<<"Kontoauszug 10/2025\nSeite 1">>),
      Pdf(<<"Kontoauszug 10/2025\nalter Kontostand vom 30.09.2025 1,2,3 H\n\n12345 Seite 1">>),
      Pdf(<<"alter Kontostand vom 30.09.2025 1,2,3 H\n05.10. 05.10. ZenJob SE Lohn 1.234,56 H">>),
      Pdf(<<"Nr. 10/2025 alter Kontostand vom 30.09.2025 1.000,00 H\n01.10. 02.10. REWE SAGT DANKE 12,34 S",
            "05.10. 05.10. ZenJob SE Lohn 1.234,56 H\nneuer Kontostand vom 31.10.2025 2.222,22 H">>),
      Pdf(<<"Kontoauszug 10/2025\n01.10. 02.10. ALDI 12,34 S\n03.10. 03.10. REWE MARKT">>),
      NoPdf,
      Pdf(<<"01.10. 02.10. ALDI SE + CO KG 12,34 S">>),
      Pdf(<<"Kontoauszug 10/2025\n01.10. 02.10. ALDI 12,34 S\n01.10. 02.10. ALDI 12,34 S">>),
      Pdf(<<"IBAN: DE12 3456 7890 1234 5678 90\n03.10. 03.10. REWE MARKT\nFiliale 7">>) }

NoUpload == [op |-> "none", doc |-> NoPdf, stage |-> "", error |-> "",
             added |-> 0, skipped |-> 0]

\* The end of the try block, or the except branch after add_transactions raised
Committed(doc, batch, add_result) ==
    /\ csv' = add_result.file
    /\ ncalls' = ncalls + 1
    /\ last' = [op |-> "add", batch |-> batch, raised |-> add_result.raised,
                added |-> add_result.added, skipped |-> add_result.skipped,
                total |-> add_result.total]
    /\ upload' = IF add_result.raised # ""
                 THEN [NoUpload EXCEPT !.op = "upload", !.doc = doc,
                          !.stage = "add_transactions",
                          !.error = "Error processing file: 'transaction_id'"]
                 ELSE [NoUpload EXCEPT !.op = "upload", !.doc = doc,
                          !.stage = "done",
                          !.added = add_result.added,
                          !.skipped = add_result.skipped]

\* add_result = self.data_manager.add_transactions(transactions)
AddToDatabase(doc, batch) == Committed(doc, batch, add_transactions(csv, batch))

\* After parse_pdf: the except branch, or categorize_batch and the rest
Processed(doc, r) ==
    IF r.raised # ""
    THEN /\ upload' = [NoUpload EXCEPT !.op = "upload", !.doc = doc,
                          !.stage = "parse_pdf",
                          !.error = "Error processing file: " \o r.message]
         /\ UNCHANGED storeVars
    ELSE AddToDatabase(doc, categorize_batch(dicts[1], heap, r.transactions))

\* _process_uploaded_file: parse_pdf, categorize_batch, add_transactions inside
\* one try; the except branch reports the error.
ProcessUploadedFile(doc) ==
    /\ Len(dicts) > 0
    /\ nuploads < MaxUploads
    /\ nuploads' = nuploads + 1
    /\ Processed(doc, parse_pdf(doc))
    /\ UNCHANGED <<catVars, extractVars, writerVars, helperVars>>

\* The "Delete All Data" button (main.py lines 112-115)
DeleteAllData ==
    /\ Len(dicts) > 0
    /\ upload.op # "delete"
    /\ csv' = clear_all_data(csv)
    /\ upload' = [NoUpload EXCEPT !.op = "delete"]
    /\ UNCHANGED <<ncalls, last, nuploads, catVars, extractVars, writerVars, helperVars>>

\* ExpenseTrackerApp.__init__: self.categorizer = TransactionCategorizer()
StartApp ==
    /\ dicts = <<>>
    /\ NewCategorizer(<<>>)

AppNext ==
    \/ StartApp
    \/ \E doc \in Documents : ProcessUploadedFile(doc)
    \/ DeleteAllData

-----------------------------------------------------------------------------
(* Claims about the extractor and the upload pipeline                      *)

StartsRecord(raw_line) == row_start_match(Strip(raw_line)).matched

HasAmount(raw_line) == amount_search(Strip(raw_line)).matched

AmountOfLine(raw_line) ==
    parse_amount(amount_search(Strip(raw_line)).amt_str,
                 amount_search(Strip(raw_line)).type_ind)

DescPartOfLine(raw_line) ==
    Strip(Slice(Strip(raw_line), row_start_match(Strip(raw_line)).end,
                amount_search(Strip(raw_line)).start))

TextLines(doc) == Split(FullText(doc.pages), "\n")

\* The record-start lines of a text that carry a generic header and are
\* followed by a continuation line with no digit among its first five characters
HeaderStarts(text_lines) ==
    {k \in 1..(Len(text_lines) - 1) :
        /\ StartsRecord(text_lines[k]) /\ HasAmount(text_lines[k])
        /\ AmountOfLine(text_lines[k]).raised = ""
        /\ HasIgnoredHeader(DescPartOfLine(text_lines[k]))
        /\ Strip(text_lines[k + 1]) # ""
        /\ ~StartsRecord(text_lines[k + 1])
        /\ ~HasDigit(Slice(Strip(text_lines[k + 1]), 0, 5))}

\* C4: when an upload went through, every record-start line of the document
\* that carries a generic header and is followed by a digit-free continuation
\* line is in the ledger as a record whose description is the continuation line
\* alone and whose amount is the signed amount of the start line.
C4_VendorPreference ==
    (upload.op = "upload" /\ upload.stage = "done")
    => \A k \in HeaderStarts(TextLines(upload.doc)) :
          \E i \in 1..Len(csv) :
             /\ csv[i].description = Strip(TextLines(upload.doc)[k + 1])
             /\ csv[i].amount = AmountOfLine(TextLines(upload.doc)[k]).value

StartLines == {k \in 1..Len(lines) : StartsRecord(lines[k])}

\* The k-th smallest element of a set of numbers
Nth(S, k) == CHOOSE x \in S : Cardinality({y \in S : y < x}) = k - 1

\* C5: the sequence the extractor builds never holds one record twice, and what
\* it returns has one record per record-start line of the text, in the order of
\* those lines.
C5_OneRecordPerStartLine ==
    /\ \A i, j \in 1..Len(transactions) : i # j => transactions[i] # transactions[j]
    /\ status = "returned" =>
          /\ Len(result) = Cardinality(StartLines)
          /\ \A k \in 1..Len(result) :
                LET start == Strip(lines[Nth(StartLines, k)])
                IN  Slice(result[k].raw_description, 0, Len(start)) = start

\* Extraction of a document fails: the file does not open, or one of the two
\* extraction calls raises.
ExtractionFails(doc) ==
    \/ ~doc.readable
    \/ extract_metadata(FullText(doc.pages)).raised # ""
    \/ extract_transactions(FullText(doc.pages),
                            GetYear(extract_metadata(FullText(doc.pages)).metadata)).raised # ""

FailingDocuments == {doc \in Documents : ExtractionFails(doc)}

\* C10: an upload of a document whose extraction fails stops in parse_pdf:
\* add_transactions is not called and the ledger stays what it was.
C10_AllOrNothing ==
    [][(nuploads' = nuploads + 1 /\ upload'.doc \in FailingDocuments)
       => /\ upload'.stage = "parse_pdf"
          /\ csv' = csv
          /\ ncalls' = ncalls
          /\ last' = last]_vars

\* A document with a well-formed record line before a record-start line whose
\* amount token is no number
MalformedAfterWellFormed(text_lines) ==
    \E j, k \in 1..Len(text_lines) :
        /\ j < k
        /\ StartsRecord(text_lines[j]) /\ HasAmount(text_lines[j])
        /\ AmountOfLine(text_lines[j]).raised = ""
        /\ StartsRecord(text_lines[k]) /\ HasAmount(text_lines[k])
        /\ AmountOfLine(text_lines[k]).raised # ""

\* Such a document was uploaded into a ledger that already had entries, and the
\* upload ended in parse_pdf.
C10_Witness ==
    /\ upload.op = "upload"
    /\ upload.stage = "parse_pdf"
    /\ upload.doc \in FailingDocuments
    /\ MalformedAfterWellFormed(TextLines(upload.doc))
    /\ Len(csv) > 0

-----------------------------------------------------------------------------
(* Claims about empty batches and the transaction id                       *)

\* C11: an upload whose document yields zero transactions goes through
\* categorize_batch and add_transactions without an error and reports
\* added = 0 and skipped = 0.
C11_EmptyResultIsNoFailure ==
    (upload.op = "upload" /\ upload.stage # "parse_pdf" /\ last.op = "add"
     /\ last.batch = <<>>)
    => /\ upload.stage = "done"
       /\ upload.error = ""
       /\ last.raised = ""
       /\ upload.added = 0
       /\ upload.skipped = 0

OtherDates == {"2025-10-02", "2025-12-31"}

OtherCategories == {"Groceries", "Other"}

OtherRawDescriptions == {"", "01.10. 02.10. X 12,34 S"}

\* The transactions that agree with t on value_date, amount and description
SameTriple(t) ==
    {[t EXCEPT !.booking_date = b, !.type = ty, !.category = c, !.raw_description = r] :
        b \in OtherDates, ty \in {"Debit", "Credit"}, c \in OtherCategories,
        r \in OtherRawDescriptions}

\* The rows the last call appended to the file
AppendedRows == {i \in 1..Len(csv) : i > Len(csv) - last.added}

\* C12: the id a call of add_transactions gives a transaction, whatever the
\* file holds at that call, has 16 characters and is the id of every
\* transaction with the same value_date, amount and description, whatever its
\* other fields; the rows the call appends carry that id.
C12_IdIsAFunctionOfTheTriple ==
    last.op = "add" =>
        /\ \A k \in 1..Len(last.batch) :
              /\ Len(generate_transaction_id(last.batch[k])) = 16
              /\ \A u \in SameTriple(last.batch[k]) :
                    generate_transaction_id(u) = generate_transaction_id(last.batch[k])
        /\ \A i \in AppendedRows :
              \A u \in SameTriple(csv[i]) : generate_transaction_id(u) = csv[i].transaction_id

\* Two entries with the same three fields stored by different calls, the second
\* into a file that was not empty
C12_Witness ==
    /\ ncalls >= 2
    /\ last.op = "add"
    /\ last.added = 1
    /\ Len(csv) >= 2
    /\ csv[1].description = csv[Len(csv)].description
    /\ csv[1].value_date = csv[Len(csv)].value_date
    /\ csv[1].amount = csv[Len(csv)].amount
    /\ csv[1].transaction_id = csv[Len(csv)].transaction_id

-----------------------------------------------------------------------------
(* Claims about the records the extractor emits                            *)

\* The lines read so far that opened a record: record-start lines with an
\* amount token that is a number
OpeningLines ==
    {k \in 1..Len(lines) :
        /\ StartsRecord(lines[k]) /\ HasAmount(lines[k])
        /\ AmountOfLine(lines[k]).raised = ""}

IndicatorOfLine(raw_line) == amount_search(Strip(raw_line)).type_ind

NonPositive(amount) == amount.neg \/ amount.mant = 0

NonNegative(amount) == ~amount.neg \/ amount.mant = 0

SignMatchesType(t) ==
    /\ t.type \in {"Debit", "Credit"}
    /\ t.type = "Debit" => NonPositive(t.amount)
    /\ t.type = "Credit" => NonNegative(t.amount)

\* C13: the k-th record the extractor builds is a Debit exactly when the
\* indicator of the k-th opening line is S and a Credit exactly when it is H;
\* a Debit has an amount <= 0 and a Credit an amount >= 0, in the records under
\* construction and in the returned ones.
C13_SignMatchesType ==
    /\ Len(objs) = Cardinality(OpeningLines)
    /\ \A k \in 1..Len(objs) :
          /\ objs[k].type = "Debit" <=> IndicatorOfLine(lines[Nth(OpeningLines, k)]) = "S"
          /\ objs[k].type = "Credit" <=> IndicatorOfLine(lines[Nth(OpeningLines, k)]) = "H"
          /\ SignMatchesType(objs[k])
    /\ \A k \in 1..Len(result) : SignMatchesType(result[k])

\* A debit and a credit, both with amounts other than zero, were returned
C13_Witness ==
    /\ status = "returned"
    /\ \E k \in 1..Len(result) :
          result[k].type = "Debit" /\ result[k].amount.neg /\ result[k].amount.mant > 0
    /\ \E k \in 1..Len(result) :
          result[k].type = "Credit" /\ ~result[k].amount.neg /\ result[k].amount.mant > 0

IsLeapYear(y) == (y % 4 = 0 /\ y % 100 # 0) \/ y % 400 = 0

DaysInMonth(y, m) ==
    IF m = 2 THEN (IF IsLeapYear(y) THEN 29 ELSE 28)
    ELSE IF m \in {4, 6, 9, 11} THEN 30 ELSE 31

\* s is YYYY-MM-DD, a day of the calendar, in year yr
IsCalendarDateIn(s, yr) ==
    /\ Len(s) = 10
    /\ Len(yr) = 4 /\ AllDigits(yr)
    /\ Slice(s, 0, 4) = yr
    /\ Ch(s, 5) = "-" /\ Ch(s, 8) = "-"
    /\ AllDigits(Slice(s, 5, 7)) /\ AllDigits(Slice(s, 8, 10))
    /\ NatOf(Slice(s, 5, 7)) \in 1..12
    /\ NatOf(Slice(s, 8, 10)) \in 1..DaysInMonth(NatOf(yr), NatOf(Slice(s, 5, 7)))

\* C14: value_date and booking_date of every record the extractor builds are
\* YYYY-MM-DD strings that name a day of the calendar in the year the extractor
\* was given.
C14_DatesAreCalendarDates ==
    \A k \in 1..Len(objs) :
        /\ IsCalendarDateIn(objs[k].value_date, year)
        /\ IsCalendarDateIn(objs[k].booking_date, year)

-----------------------------------------------------------------------------
(* Two callers of add_transactions on one file                             *)

\* The callers (threads or processes) that share the file
Writers == {1, 2}

WriterTxns ==
    { Txn("2025-10-01", "2025-10-02", "ALDI SE + CO KG", Amt(TRUE, 1234, 2), "Groceries"),
      Txn("2025-10-05", "2025-10-05", "ZenJob SE Lohn", Amt(FALSE, 123456, 2), "Income"),
      Txn("2025-10-01", "2025-10-01", "ALDI SAGT DANKE 29604", Amt(TRUE, 1234, 2), "Groceries") }

WriterBatches == SeqsUpTo(WriterTxns, MaxBatch)

NotCalling == [pc |-> "idle", batch |-> <<>>, seen |-> <<>>]

\* add_transactions up to pd.read_csv (line 75): the caller holds the file's
\* contents as it read them.
BeginAdd(w, batch) ==
    /\ pending[w].pc = "idle"
    /\ ncalls < MaxCalls
    /\ ncalls' = ncalls + 1
    /\ pending' = [pending EXCEPT ![w] = [pc |-> "read", batch |-> batch, seen |-> csv]]
    /\ UNCHANGED <<csv, last, catVars, extractVars, appVars, helperVars>>

\* What the rest of the call does with what it read: the file it writes, if it
\* writes one (lines 93-95), and what it returns
Finished(w, r) ==
    /\ csv' = IF r.raised = "" /\ r.added > 0 THEN r.file ELSE csv
    /\ last' = [op |-> "add", batch |-> pending[w].batch, raised |-> r.raised,
                added |-> r.added, skipped |-> r.skipped, total |-> r.total]
    /\ pending' = [pending EXCEPT ![w] = NotCalling]

\* add_transactions from line 78 to its return
FinishAdd(w) ==
    /\ pending[w].pc = "read"
    /\ Finished(w, add_transactions(pending[w].seen, pending[w].batch))
    /\ UNCHANGED <<ncalls, catVars, extractVars, appVars, helperVars>>

WritersNext ==
    \/ \E w \in Writers, batch \in WriterBatches : BeginAdd(w, batch)
    \/ \E w \in Writers : FinishAdd(w)

-----------------------------------------------------------------------------
(* Claims about concurrent writers                                         *)

IdsOfBatch(batch) == {generate_transaction_id(batch[k]) : k \in 1..Len(batch)}

\* C15: when a call of add_transactions finishes on the file as it read it (no
\* other call wrote between its read and its write), every id the ledger held
\* is still in the ledger and every id of the call's batch is in it.
C15_SerialCallsKeepEveryId ==
    [][\A w \in Writers :
          (/\ pending[w].pc = "read"
           /\ pending'[w].pc = "idle"
           /\ pending[w].seen = csv
           /\ last'.raised = "")
          => /\ Ids(csv) \subseteq Ids(csv')
             /\ IdsOfBatch(pending[w].batch) \subseteq Ids(csv')]_vars

-----------------------------------------------------------------------------
(* Direct calls of the parser's helpers, as src/tests makes them           *)

MaxDescLines == 4   \* lines of one description given to _clean_description

DescriptionLines ==
    { "", "  ", "Kartenzahlung girocard", " ALDI SE + Co. KG ", "2025/123 REF",
      "ABCD5 Shop", "Überweisung Miete" }

DescriptionInputs ==
    {Join(ls, "\n") : ls \in SeqsUpTo(DescriptionLines, MaxDescLines)}

DayStrs == {"1", "01", "9", "15", "31"}
MonthStrs == {"2", "02", "10", "12"}

DateTokens ==
    {d \o "." \o m \o "." : d \in DayStrs, m \in MonthStrs}
    \cup {"", ".", "0110.", "01.", "01.10.2025.", "01.10.25", "ab.cd.", "1a.10.", "01.1o.",
          "01-10.", ".01.10.", "01..10.", "01.10", " 1.10."}

HelperYears == {"2025", "1999"}

AmountTokens ==
    { "0,00", "0,05", "5,5", "7", "12,34", "123,45", "1.234,56", "1.000,00", "12.345.678,90",
      "", ",", "1,2,3", "1.2.3" }

\* No helper has been called yet; the model follows one call of a helper, which
\* reads and writes nothing but its arguments and its result
NoReturn ==
    [op |-> "none", description |-> "", date_str |-> "", year |-> "", amount_str |-> "",
     type_indicator |-> "", raised |-> "", value |-> "",
     amount |-> [neg |-> FALSE, mant |-> 0, scale |-> 0]]

CleanDescription(description) ==
    /\ returned.op = "none"
    /\ returned' = [NoReturn EXCEPT !.op = "_clean_description",
                       !.description = description,
                       !.value = clean_description(description)]
    /\ UNCHANGED <<storeVars, catVars, extractVars, appVars, writerVars>>

ParseDate(date_str, yr) ==
    /\ returned.op = "none"
    /\ returned' = [NoReturn EXCEPT !.op = "_parse_date", !.date_str = date_str, !.year = yr,
                       !.raised = parse_date(date_str, yr).raised,
                       !.value = parse_date(date_str, yr).value]
    /\ UNCHANGED <<storeVars, catVars, extractVars, appVars, writerVars>>

ParseAmount(amount_str, type_indicator) ==
    /\ returned.op = "none"
    /\ returned' = [NoReturn EXCEPT !.op = "_parse_amount", !.amount_str = amount_str,
                       !.type_indicator = type_indicator,
                       !.raised = parse_amount(amount_str, type_indicator).raised,
                       !.amount = parse_amount(amount_str, type_indicator).value]
    /\ UNCHANGED <<storeVars, catVars, extractVars, appVars, writerVars>>

HelperNext ==
    \/ \E description \in DescriptionInputs : CleanDescription(description)
    \/ \E date_str \in DateTokens, yr \in HelperYears : ParseDate(date_str, yr)
    \/ \E amount_str \in AmountTokens, type_indicator \in {"S", "H"} :
          ParseAmount(amount_str, type_indicator)

-----------------------------------------------------------------------------
(* Claims about the parser's helpers                                       *)

\* The positions of the pieces of a description, cut at its line breaks, that
\* are not empty once trimmed
NonEmptyPieces(pieces) == {i \in 1..Len(pieces) : Strip(pieces[i]) # ""}

\* The non-empty trimmed lines of a description, in their order
TrimmedLinesAt(pieces, positions) ==
    [k \in 1..Cardinality(positions) |-> Strip(pieces[Nth(positions, k)])]

TrimmedLinesOf(pieces) == TrimmedLinesAt(pieces, NonEmptyPieces(pieces))

TrimmedLines(description) == TrimmedLinesOf(Split(description, "\n"))

\* The second and third of the lines with no digit among their first five
\* characters
VendorLines(ls) ==
    {k \in 2..3 : k <= Len(ls) /\ \A i \in 1..5 : i <= Len(ls[k]) => ~IsDigit(Ch(ls[k], i))}

IsGenericHeader(line) ==
    \E header \in {"KARTENZAHLUNG GIROCARD", "BASISLASTSCHRIFT", "ÜBERWEISUNG", "GUTSCHRIFT"} :
        Contains(header, Upper(line))

CleanedAs(ls, header, vendors, value) ==
    /\ ls = <<>> => value = "Unknown"
    /\ (ls # <<>> /\ ~header) => value = ls[1]
    /\ (ls # <<>> /\ header /\ vendors = {}) => value = ls[1]
    /\ (ls # <<>> /\ header /\ vendors # {}) => value = ls[Min(vendors)]
    /\ value = "Unknown" \/ \E k \in 1..3 : k <= Len(ls) /\ value = ls[k]

CleanedFrom(ls, value) ==
    CleanedAs(ls, ls # <<>> /\ IsGenericHeader(ls[1]), VendorLines(ls), value)

WithoutTrailingDot(s) ==
    IF s # "" /\ Ch(s, Len(s)) = "." THEN SubSeq(s, 1, Len(s) - 1) ELSE s

\* The token, once its trailing dot is removed, splits on "." into exactly two
\* numeric parts
TwoNumericParts(pieces) == Len(pieces) = 2 /\ IsNumeral(pieces[1]) /\ IsNumeral(pieces[2])

IsDateToken(s) == TwoNumericParts(Split(WithoutTrailingDot(s), "."))

\* C18: _parse_date raises for every token that, once its trailing dot is
\* removed, does not split on "." into exactly two numeric parts, and returns
\* no date string for it.
C18_MalformedDateTokenRaises ==
    (returned.op = "_parse_date" /\ ~IsDateToken(returned.date_str))
    => returned.raised # "" /\ returned.value = ""

\* An amount token in dot-thousands/comma-decimal format: groups of three
\* digits after a first group of one to three, a comma, one or two decimals
IsThousandsGroups(groups) ==
    /\ Len(groups) >= 1
    /\ IsNumeral(groups[1]) /\ Len(groups[1]) <= 3
    /\ \A i \in 2..Len(groups) : IsNumeral(groups[i]) /\ Len(groups[i]) = 3

IsCommaDecimal(halves) ==
    /\ Len(halves) = 2
    /\ IsThousandsGroups(Split(halves[1], "."))
    /\ IsNumeral(halves[2]) /\ Len(halves[2]) <= 2

IsAmountToken(s) == IsCommaDecimal(Split(s, ","))

\* The token's value in cents: its digits before the comma as units, its
\* decimals as tenths and hundredths
CentsOfHalves(halves) ==
    100 * NatOf(Join(Split(halves[1], "."), ""))
    + (IF Len(halves[2]) = 1 THEN 10 * NatOf(halves[2]) ELSE NatOf(halves[2]))

CentsOfToken(s) == CentsOfHalves(Split(s, ","))

\* A parsed amount of two decimals at most, in cents
Cents(a) == (IF a.neg THEN -1 ELSE 1) * a.mant * Pow10(2 - a.scale)

\* C19: for every amount token in dot-thousands/comma-decimal format,
\* _parse_amount with 'H' gives the value read with every dot deleted and the
\* comma as the decimal point, and with 'S' the negation of it, in cents.
C19_DebitNegatesCredit ==
    (returned.op = "_parse_amount" /\ IsAmountToken(returned.amount_str))
    => /\ returned.raised = ""
       /\ parse_amount(returned.amount_str, "H").raised = ""
       /\ parse_amount(returned.amount_str, "S").raised = ""
       /\ Cents(parse_amount(returned.amount_str, "H").value) = CentsOfToken(returned.amount_str)
       /\ Cents(parse_amount(returned.amount_str, "S").value) = -CentsOfToken(returned.amount_str)
       /\ Cents(returned.amount) = IF returned.type_indicator = "S"
                                   THEN -CentsOfToken(returned.amount_str)
                                   ELSE CentsOfToken(returned.amount_str)

C19_Witness ==
    /\ returned.op = "_parse_amount"
    /\ returned.amount_str = "1.234,56"
    /\ returned.type_indicator = "S"
    /\ returned.raised = ""
    /\ Cents(returned.amount) = -123456

\* A DD.MM. token: one or two digits, a dot, one or two digits, a dot
IsDayAndMonth(pieces) ==
    /\ Len(pieces) = 2
    /\ IsNumeral(pieces[1]) /\ Len(pieces[1]) <= 2
    /\ IsNumeral(pieces[2]) /\ Len(pieces[2]) <= 2

IsValidDateToken(s) ==
    /\ s # "" /\ Ch(s, Len(s)) = "."
    /\ IsDayAndMonth(Split(WithoutTrailingDot(s), "."))

TwoDigits(s) == IF Len(s) = 1 THEN "0" \o s ELSE s

IsoDateOf(pieces, yr) == yr \o "-" \o TwoDigits(pieces[2]) \o "-" \o TwoDigits(pieces[1])

\* C20: for every DD.MM. token of one- or two-digit day and month with its
\* trailing dot and every 4-digit year, _parse_date returns year-month-day with
\* month and day padded with zeros to two digits, month before day.
C20_ValidTokenGivesIsoDate ==
    (/\ returned.op = "_parse_date"
     /\ IsValidDateToken(returned.date_str)
     /\ Len(returned.year) = 4 /\ IsNumeral(returned.year))
    => /\ returned.raised = ""
       /\ returned.value = IsoDateOf(Split(WithoutTrailingDot(returned.date_str), "."), returned.year)

C20_Witness ==
    /\ returned.op = "_parse_date"
    /\ returned.date_str = "9.2."
    /\ returned.year = "1999"
    /\ returned.value = "1999-02-09"

-----------------------------------------------------------------------------
(* Claims about texts without records and about the lines of a record      *)

\* The keys of the patterns that _extract_metadata finds in the text
FoundKeys(full_text) ==
    (IF iban_search(full_text).matched THEN {"iban"} ELSE {})
    \cup (IF statement_search(full_text).matched THEN {"statement_number", "year"} ELSE {})
    \cup (IF balance_search(full_text, "alter Kontostand vom ").matched
          THEN {"old_balance_date", "old_balance"} ELSE {})
    \cup (IF balance_search(full_text, "neuer Kontostand vom ").matched
          THEN {"new_balance_date", "new_balance"} ELSE {})

NoRecordStart(text_lines) == \A k \in 1..Len(text_lines) : ~StartsRecord(text_lines[k])

MetadataFound(full_text, md) ==
    md.raised = "" /\ DOMAIN md.metadata = FoundKeys(full_text)

\* C21: for a document that opens and whose text has no record-start line,
\* parse_pdf raises nothing, _extract_transactions gives the empty sequence and
\* _extract_metadata gives a dict with exactly the keys of the patterns found.
C21_NoRecordStartLines ==
    (upload.op = "upload" /\ upload.doc.readable /\ NoRecordStart(TextLines(upload.doc)))
    => /\ upload.stage # "parse_pdf"
       /\ last.op = "add" /\ last.batch = <<>>
       /\ MetadataFound(FullText(upload.doc.pages), extract_metadata(FullText(upload.doc.pages)))

\* The last record-start line read so far
LastStartLine == CHOOSE k \in StartLines : \A j \in StartLines : j <= k

\* C22: a line read after a record-start line is appended to no record opened
\* before that start line: a record whose description or raw_description grows
\* is the record that the most recent record-start line opened.
C22_StartLineEndsRecord ==
    [][\A k \in 1..Len(objs) :
          objs'[k] # objs[k]
          => /\ StartLines # {}
             /\ Nth(OpeningLines, k) = LastStartLine]_vars

\* The record-start lines read so far that carry no amount token
AmountlessStartLines == {k \in StartLines : ~HasAmount(lines[k])}

\* C23: a text with a record-start line that carries no amount token is read
\* to its end without a KeyError from the pass that joins the descriptions, and
\* what is returned holds a record for that line.
C23_AmountlessStartIsRecoverable ==
    /\ (status = "raised" /\ AmountlessStartLines # {}) => error # "KeyError"
    /\ status = "returned"
       => \A k \in AmountlessStartLines :
             \E i \in 1..Len(result) :
                Slice(result[i].raw_description, 0, Len(Strip(lines[k]))) = Strip(lines[k])

\* The part of the stripped line after the two date tokens
AfterDates(line) == Slice(line, row_start_match(line).end, Len(line))

\* The offset in the line at which the amount token of the part after the date
\* tokens starts
AmountStartAfterDates(line) ==
    row_start_match(line).end + amount_search(AfterDates(line)).start

\* C24: a record is opened only by a start line whose part after the two date
\* tokens holds an amount token; its amount is that token's, and its first
\* description fragment is the text between the second date token and that
\* token.  "01.10. 02.10. S" opens no record.
C24_AmountAfterDatesOnly ==
    \A k \in 1..Len(objs) :
        LET line == Strip(lines[Nth(OpeningLines, k)])
        IN  /\ line # "01.10. 02.10. S"
            /\ amount_search(AfterDates(line)).matched
            /\ amount_search(line).start >= row_start_match(line).end
            /\ objs[k].amount = parse_amount(amount_search(AfterDates(line)).amt_str,
                                             amount_search(AfterDates(line)).type_ind).value
            /\ objs[k].description_lines[1]
                  = Strip(Slice(line, row_start_match(line).end, AmountStartAfterDates(line)))

\* The line that the step reads, stripped
LineRead == Strip(lines'[Len(lines')])

IsNoise(line) == line = "" \/ (IsDigit(Ch(line, 1)) /\ ~row_start_match(line).matched)

Continues(line) == line # "" /\ ~IsDigit(Ch(line, 1)) /\ ~row_start_match(line).matched

ScannerUnchanged ==
    /\ objs' = objs
    /\ transactions' = transactions
    /\ current_transaction' = current_transaction
    /\ status' = status

\* C25: reading a blank line, or a line that starts with a digit and is no
\* record-start line, changes no record, emits none and leaves the active record
\* active; so does any line that is no record-start line while no record is
\* active; a line that is not blank, does not start with a digit and is no
\* record-start line is appended to the description lines and the
\* raw_description of the active record, and to no other.
C25_NoiseChangesNothing ==
    [][Len(lines') = Len(lines) + 1
       => /\ IsNoise(LineRead) => ScannerUnchanged
          /\ (~row_start_match(LineRead).matched /\ current_transaction = 0) => ScannerUnchanged
          /\ (Continues(LineRead) /\ current_transaction # 0)
             => /\ current_transaction' = current_transaction
                /\ transactions' = transactions
                /\ Len(objs') = Len(objs)
                /\ \A k \in 1..Len(objs) : k # current_transaction => objs'[k] = objs[k]
                /\ objs'[current_transaction].description_lines
                      = Append(objs[current_transaction].description_lines, LineRead)
                /\ objs'[current_transaction].raw_description
                      = objs[current_transaction].raw_description \o " " \o LineRead]_vars

\* A record was opened, a digit-leading line was read and dropped, and the line
\* after it was appended to the record
C25_Witness ==
    /\ status = "scanning"
    /\ lines = <<"01.10. 02.10. KARTENZAHLUNG GIROCARD 12,34 S", "12345 Seite 1", "ALDI SE + CO KG">>
    /\ current_transaction = 1
    /\ objs[1].description_lines = <<"KARTENZAHLUNG GIROCARD", "ALDI SE + CO KG">>
    /\ objs[1].raw_description = "01.10. 02.10. KARTENZAHLUNG GIROCARD 12,34 S ALDI SE + CO KG"

-----------------------------------------------------------------------------
(* Specifications: one per component, the other components standing still  *)

\* The state before any call: an empty expenses_history.csv, the module-level
\* keyword lists of config/categories.py and no categorizer instance, no
\* extraction under way, no upload.
Init ==
    /\ csv = <<>>
    /\ ncalls = 0
    /\ last = NoCall
    /\ heap = [i \in 1..Len(CATEGORY_KEYWORDS) |-> CATEGORY_KEYWORDS[i].keywords]
    /\ dicts = <<>>
    /\ nadds = 0
    /\ call = NoClassifierCall
    /\ lines = <<>>
    /\ year = ""
    /\ objs = <<>>
    /\ transactions = <<>>
    /\ current_transaction = 0
    /\ status = "idle"
    /\ result = <<>>
    /\ error = ""
    /\ nuploads = 0
    /\ upload = NoUpload
    /\ pending = [w \in Writers |-> NotCalling]
    /\ returned = NoReturn

SpecStore == Init /\ [][StoreNext]_vars

SpecCat == Init /\ [][CatNext]_vars

SpecExtract == Init /\ [][ExtractNext]_vars

SpecApp == Init /\ [][AppNext]_vars

SpecWriters == Init /\ [][WritersNext]_vars

SpecHelpers == Init /\ [][HelperNext]_vars

=============================================================================
